---- MODULE Spec2Model ----
(***************************************************************************)
(* A model of the gcf-thumbnails Cloud Function.                           *)
(*                                                                         *)
(* Two revisions of the handler are in the repository:                     *)
(*   src/index.js          the promise-returning handler (rev = "index")   *)
(*   src/unnamed/part_000  the callback handler          (rev = "part000") *)
(* Both are modelled; the variable rev says which one is deployed.         *)
(*                                                                         *)
(* Every collaborator call (storage, ImageMagick, dominant-color, fs) is   *)
(* asynchronous: the action that issues it leaves the invocation waiting   *)
(* in pc, and one action per call models its callback together with all    *)
(* the synchronous code (and promise reactions) that run before the next   *)
(* call is issued.                                                         *)
(*                                                                         *)
(* JavaScript indices are 0-based; data[k] of the code is data[k+1] here.  *)
(***************************************************************************)
EXTENDS Integers, Sequences, FiniteSets, TLC

VARIABLES
    rev,                \* the deployed revision
    event,              \* event[i].data of invocation i
    source,             \* the input-bucket object behind event[i] (an index of Catalog)
    encoded,            \* the bytes of the file the codec leaves of each object
    pc,                 \* the collaborator call invocation i waits for
    fs,                 \* /tmp: scratch path -> file content
    bucket,             \* the output bucket: the set of objects written
    signal,             \* what invocation i told its caller
    completions,        \* how many times invocation i signalled completion
    trace,              \* the calls invocation i issued and how they ended
    tempLocalFilename,  \* processFile's local
    tempDataFilename,   \* storeThumbData's local
    dominantColor,      \* processFile's local
    originalMetadata,   \* processFile's local
    thumbSize,          \* the size convertImage / downscaleImage asked for
    finalDimensions,    \* the dimensions identified after the resize
    thumbData,          \* extractThumbData's result
    uploadOptions,      \* the destination, content type and metadata handed to uploadFile
    debugUpload,        \* part_000's un-awaited upload of the downscaled image
    scan,               \* one run of findMarker's loop, step by step
    ext,                \* one application of extractThumbData
    plan                \* one application of the size calculation

vars == <<rev, event, source, encoded, pc, fs, bucket, signal, completions, trace,
          tempLocalFilename, tempDataFilename, dominantColor, originalMetadata,
          thumbSize, finalDimensions, thumbData, uploadOptions, debugUpload, scan, ext,
          plan>>

pipelineVars == <<rev, event, source, encoded, pc, fs, bucket, signal, completions, trace,
                  tempLocalFilename, tempDataFilename, dominantColor,
                  originalMetadata, thumbSize, finalDimensions, thumbData,
                  uploadOptions, debugUpload>>

----------------------------------------------------------------------------
(* Bounds of the model. *)

\* The longest byte buffer the scanner and the record builder are tried on.
MaxLen == 6

\* The largest multiple of 256 added to a dimension (0..MaxWrap wraps).
MaxWrap == 1
MaxSide == 8

----------------------------------------------------------------------------
(* Marker Scanner: findMarker, src/index.js:162-178 *)

\* JavaScript's null (findMarker's "not found", and the initial previousByte).
\* It is no index and no byte.
null == -1

\* The JFIF escape byte 0xFF, the Start-of-Scan marker 0xDA and the
\* End-of-Image marker 0xD9.
ESCAPE == 255
SOS == 218
EOI == 217

\* The state of the loop on entry: let index = startIndex; let previousByte = null
findMarkerEnter(startIndex) ==
    [index |-> startIndex, previousByte |-> null, done |-> FALSE, ret |-> null]

\* A faulty variant: the marker byte's own index is returned.
findMarkerStep_markerIndex(marker, data, s) ==
    IF s.index < Len(data)
    THEN LET currentByte == data[s.index + 1] IN
         IF s.previousByte = ESCAPE /\ currentByte = marker
         THEN [s EXCEPT !.done = TRUE, !.ret = s.index]
         ELSE [s EXCEPT !.previousByte = currentByte, !.index = s.index + 1]
    ELSE [s EXCEPT !.done = TRUE, !.ret = null]

\* One evaluation of the while condition and, when it holds, of the loop body.
findMarkerStep(marker, data, s) ==
    IF s.index < Len(data)
    THEN LET currentByte == data[s.index + 1] IN
         IF s.previousByte = ESCAPE /\ currentByte = marker
         THEN [s EXCEPT !.done = TRUE, !.ret = s.index - 1]
         ELSE [s EXCEPT !.previousByte = currentByte, !.index = s.index + 1]
    ELSE [s EXCEPT !.done = TRUE, !.ret = null]

\* The states of the loop.
ScanStates == [index : Nat, previousByte : Int, done : BOOLEAN, ret : Int]

\* The loop run from state s to its return.
findMarkerRun(marker, data, s) ==
    LET run[t \in ScanStates] ==
            IF t.done THEN t.ret ELSE run[findMarkerStep(marker, data, t)]
    IN  run[s]

findMarker(marker, startIndex, data) ==
    findMarkerRun(marker, data, findMarkerEnter(startIndex))

----------------------------------------------------------------------------
(* Thumb Record Builder: extractThumbData, src/index.js:189-234 *)

\* The conversion of a number stored into a Uint8Array element (ToUint8).
ToUint8(n) == n % 256

\* new Uint8Array([...]): every element is converted.
Uint8Array(elems) == [k \in DOMAIN elems |-> ToUint8(elems[k])]

\* buffer.slice(begin, end) for 0 <= begin, end <= length.
slice(buffer, begin, end) == SubSeq(buffer, begin + 1, end)

\* A faulty variant: only the escape byte of the start marker is skipped.
dataStartIndex_one(sosIndex) == sosIndex + 1

\* const dataStartIndex = sosIndex + 2
dataStartIndex(sosIndex) == sosIndex + 2

\* A faulty variant: only the height is tested.
InvalidDimensions_heightOnly(dimensions) == dimensions.height = 0

\* A missing dimension (undefined) is modelled as 0: both are falsy.
InvalidDimensions(dimensions) ==
    dimensions.width = 0 \/ dimensions.height = 0

Reject(message) == [ok |-> FALSE, error |-> message, value |-> <<>>]
Resolve(value) == [ok |-> TRUE, error |-> "", value |-> value]

\* A faulty variant: the end marker is searched from the start of the buffer.
eoiSearchStart_zero(sosIndex) == 0

\* findMarker(0xD9, sosIndex, buffer): the search starts at the start marker.
eoiSearchStart(sosIndex) == sosIndex

\* The body of fs.readFile's callback on success: data are the file's bytes.
extractFromData(data, dimensions) ==
    LET buffer == data
        sosIndex == findMarker(SOS, 0, buffer)
    IN  IF sosIndex = null THEN Reject("SOS marker not found")
        ELSE LET eoiIndex == findMarker(EOI, eoiSearchStart(sosIndex), buffer) IN
             IF eoiIndex = null THEN Reject("EOI marker not found")
             ELSE LET jpegData == slice(buffer, dataStartIndex(sosIndex), eoiIndex)
                      header == Uint8Array(<<1, 1, dimensions.width,
                                             dimensions.height>>)
                  IN  Resolve(header \o jpegData)

\* extractThumbData applied to a file whose bytes are data.
extractThumbData(data, dimensions) ==
    IF InvalidDimensions(dimensions)
    THEN Reject("Invalid thumb dimensions")
    ELSE extractFromData(data, dimensions)

----------------------------------------------------------------------------
(* The world around the handler *)

\* The concurrent invocations (one per triggering event).
Inv == {1, 2}

\* An absent file, an image file (the downloaded object, rewritten in place
\* by the codec) and a thumb-data file. by is the invocation that wrote it.
NoFile == [kind |-> "none", by |-> 0, obj |-> 0, stage |-> "", bytes |-> <<>>]
ImageFile(i, obj, stage) ==
    [kind |-> "image", by |-> i, obj |-> obj, stage |-> stage, bytes |-> <<>>]
DataFile(i, bytes) ==
    [kind |-> "data", by |-> i, obj |-> 0, stage |-> "", bytes |-> bytes]

\* The objects an event may be about. width, height: what identify reports of
\* the object; finalWidth, finalHeight: what identify reports of the file the
\* codec leaves, and jpeg: its bytes; color: what dominant-color reports;
\* hasMetadata, metadata: data[0].metadata of getMetadata (key/value pairs).
Catalog == <<
    \* an ordinary photo
    [width |-> 3904, height |-> 2622, finalWidth |-> 61, finalHeight |-> 41,
     original |-> <<255, 216, 255, 218, 1, 2, 3, 255, 217>>,
     jpeg |-> <<255, 216, 255, 218, 17, 255, 0, 255, 217>>,
     color |-> "a1b2c3", hasMetadata |-> FALSE, metadata |-> {}],
    \* a panorama: the thumbnail is 260 wide, the codec made it 9 high
    [width |-> 2700, height |-> 100, finalWidth |-> 260, finalHeight |-> 9,
     original |-> <<255, 216, 255, 218, 4, 5, 255, 217>>,
     jpeg |-> <<255, 218, 255, 217>>,
     color |-> "000000",
     hasMetadata |-> TRUE,
     metadata |-> {<<"dominantColor", "ffffff">>, <<"owner", "qvik">>}],
    \* the codec's output has no End-of-Image marker
    [width |-> 100, height |-> 100, finalWidth |-> 50, finalHeight |-> 50,
     original |-> <<255, 216, 255, 218, 6, 255, 217>>,
     jpeg |-> <<255, 216, 255, 218, 17, 217>>,
     color |-> "102030", hasMetadata |-> TRUE, metadata |-> {}],
    \* the codec's output has no Start-of-Scan marker
    [width |-> 640, height |-> 480, finalWidth |-> 58, finalHeight |-> 43,
     original |-> <<255, 216, 255, 218, 7, 255, 217>>,
     jpeg |-> <<255, 216, 218, 17, 255, 217>>,
     color |-> "405060", hasMetadata |-> TRUE,
     metadata |-> {<<"owner", "qvik">>}],
    \* identify reports no width for the codec's output
    [width |-> 50, height |-> 50, finalWidth |-> 0, finalHeight |-> 50,
     original |-> <<255, 216, 255, 218, 8, 255, 217>>,
     jpeg |-> <<255, 216, 255, 218, 17, 255, 217>>,
     color |-> "708090", hasMetadata |-> FALSE, metadata |-> {}],
    \* identify reports no width for the object itself (a corrupt source);
    \* should the codec succeed, it leaves the image as it was
    [width |-> 0, height |-> 100, finalWidth |-> 0, finalHeight |-> 100,
     original |-> <<255, 216, 255, 218, 9, 255, 217>>,
     jpeg |-> <<255, 216, 255, 218, 9, 255, 217>>,
     color |-> "0a0b0c", hasMetadata |-> FALSE, metadata |-> {}],
    \* a strip 1 wide and 40000 high: the planned width rounds to 0
    [width |-> 1, height |-> 40000, finalWidth |-> 1, finalHeight |-> 10000,
     original |-> <<255, 216, 255, 218, 10, 255, 217>>,
     jpeg |-> <<255, 216, 255, 218, 17, 255, 217>>,
     color |-> "0d0e0f", hasMetadata |-> FALSE, metadata |-> {}] >>

Objects == DOMAIN Catalog

\* The scratch paths /tmp/<uuid>.
Paths == 1 .. 4

\* A faulty variant: a scratch name that depends only on the call site.
uuidv4_fixed(i, n) == n

\* uuidv4(): the n-th name invocation i generates. Version 4 UUIDs are taken
\* to be distinct.
uuidv4(i, n) == 2 * (i - 1) + n

\* The name of the object event i is about: different objects, as sequences of
\* string pieces (+ on strings is \o).
ObjectName(i) == IF i = 1 THEN <<"a.jpg">> ELSE <<"b.jpg">>

Events(i) ==
    { [resourceState |-> r, metageneration |-> m, name |-> ObjectName(i)] :
        r \in {"exists", "not_exists"}, m \in {"1", "2"} }

\* im.identify of a file: the features of the image in it.
identify(file) ==
    IF file.stage = "orig"
    THEN [width |-> Catalog[file.obj].width, height |-> Catalog[file.obj].height]
    ELSE [width |-> Catalog[file.obj].finalWidth,
          height |-> Catalog[file.obj].finalHeight]

\* fs.readFile of a file: its bytes.
readFile(file) ==
    IF file.kind = "data" THEN file.bytes
    ELSE IF file.stage = "orig" THEN Catalog[file.obj].original
    ELSE encoded[file.obj]

----------------------------------------------------------------------------
(* Size Planner: the head of convertImage (src/index.js:123-126) and of     *)
(* downscaleImage (src/unnamed/part_000:64-68)                              *)

PIXEL_BUDGET == 50 * 50

\* Math.round(Math.sqrt(num / den)) for num >= 0 and den > 0, in integers:
\* the least n with num/den < (n + 1/2)^2, found by doubling and bisection.
RoundsBelow(num, den, n) == 4 * num < (2 * n + 1) * (2 * n + 1) * den

RoundSqrtUpper(num, den, hi) ==
    LET upper[h \in Nat] ==
            IF RoundsBelow(num, den, h) THEN h ELSE upper[2 * h + 1]
    IN  upper[hi]

RoundSqrtBetween(num, den, lo, hi) ==
    LET between[r \in Nat \X Nat] ==
            IF r[1] = r[2] THEN r[1]
            ELSE LET mid == (r[1] + r[2]) \div 2 IN
                 IF RoundsBelow(num, den, mid)
                 THEN between[<<r[1], mid>>]
                 ELSE between[<<mid + 1, r[2]>>]
    IN  between[<<lo, hi>>]

RoundSqrt(num, den) ==
    RoundSqrtBetween(num, den, 0, RoundSqrtUpper(num, den, 0))

\* Math.round(-Math.sqrt(num / den)) negated, for num >= 0 and den > 0:
\* Math.round rounds a half up, so -(n + 1/2) rounds to -n.
RoundNegSqrt(num, den) ==
    LET n == RoundSqrt(num, den) IN
    IF n > 0 /\ 4 * num = (2 * n - 1) * (2 * n - 1) * den THEN n - 1 ELSE n

\* The JavaScript numbers the calculation can yield: an integer, NaN and the
\* infinities.
Num(n) == [kind |-> "finite", n |-> n]
NaN == [kind |-> "NaN", n |-> 0]
Infinity == [kind |-> "Infinity", n |-> 0]

\* Math.round(ratio * side) where ratio = Math.sqrt(PIXEL_BUDGET / origPixels)
\* and origPixels = side * other, for any integers:
\*   both positive: ratio * side = sqrt(PIXEL_BUDGET * side / other);
\*   both negative: the same, negated;
\*   origPixels < 0, or origPixels = -0 (a zero times a negative): the
\*     square root of a negative number or of -Infinity is NaN;
\*   origPixels = +0: ratio is Infinity, and Infinity * 0 is NaN.
roundedSide(side, other) ==
    IF side > 0 /\ other > 0 THEN Num(RoundSqrt(PIXEL_BUDGET * side, other))
    ELSE IF side < 0 /\ other < 0
    THEN Num(0 - RoundNegSqrt(PIXEL_BUDGET * (0 - side), 0 - other))
    ELSE IF side < 0 \/ other < 0 THEN NaN
    ELSE IF side = 0 THEN NaN
    ELSE Infinity

\* const thumbWidth = Math.round(ratio * width), thumbHeight likewise: no
\* check of the dimensions comes before, none of the result after.
planSize(width, height) ==
    [width |-> roundedSide(width, height), height |-> roundedSide(height, width)]

----------------------------------------------------------------------------
(* Helpers of the actions *)

Call(step) == <<"call", step>>
Ok(step) == <<"ok", step>>
Err(step) == <<"err", step>>

\* t followed by the events es.
Logged(i, es) == [trace EXCEPT ![i] = @ \o es]

\* Object.assign(target, src) on maps kept as sets of <<key, value>> pairs.
ObjectAssign(target, src) ==
    { p \in target : \A q \in src : q[1] # p[1] } \cup src

----------------------------------------------------------------------------
(* The initial state: no handler has run yet *)

NoOptions == [destination |-> <<>>, contentType |-> "", metadata |-> {}]
NoDimensions == [width |-> 0, height |-> 0]
NoSize == [width |-> Num(0), height |-> Num(0)]
PlanIdle == [width |-> 0, height |-> 0, applied |-> FALSE, out |-> NoSize,
             active |-> FALSE]

ScanIdle == [marker |-> 0, startIndex |-> 0, data |-> <<>>,
             s |-> findMarkerEnter(0), steps |-> 0, active |-> FALSE]
ExtIdle == [data |-> <<>>, dimensions |-> NoDimensions, applied |-> FALSE,
            out |-> Reject(""), active |-> FALSE]

\* No handler has run: no call issued, /tmp and the output bucket empty.
InitHandlers ==
    /\ pc = [i \in Inv |-> "start"]
    /\ fs = [p \in Paths |-> NoFile]
    /\ bucket = {}
    /\ signal = [i \in Inv |-> "none"]
    /\ completions = [i \in Inv |-> 0]
    /\ trace = [i \in Inv |-> <<>>]
    /\ tempLocalFilename = [i \in Inv |-> 0]
    /\ tempDataFilename = [i \in Inv |-> 0]
    /\ dominantColor = [i \in Inv |-> ""]
    /\ originalMetadata = [i \in Inv |-> {}]
    /\ thumbSize = [i \in Inv |-> NoSize]
    /\ finalDimensions = [i \in Inv |-> NoDimensions]
    /\ thumbData = [i \in Inv |-> <<>>]
    /\ uploadOptions = [i \in Inv |-> NoOptions]
    /\ debugUpload = [i \in Inv |-> "none"]

\* Either revision, any two events about two different objects of the catalog.
Init ==
    /\ rev \in {"index", "part000"}
    /\ event \in { e \in [Inv -> UNION { Events(i) : i \in Inv }] :
                     \A i \in Inv : e[i] \in Events(i) }
    /\ source \in [Inv -> Objects]
    /\ encoded = [o \in Objects |-> Catalog[o].jpeg]
    /\ InitHandlers
    /\ scan = ScanIdle
    /\ ext = ExtIdle
    /\ plan = PlanIdle

----------------------------------------------------------------------------
(* exports.thumbnails: the dispatch on the event, the same in both revisions *)
(* (src/index.js:365-376, src/unnamed/part_000:187-209)                      *)

\* A faulty variant: the metageneration is looked at first.
Dispatch_metagenerationFirst(object) ==
    IF object.metageneration = "1" THEN "process"
    ELSE IF object.resourceState = "not_exists" THEN "deleted"
    ELSE "updated"

\* A faulty variant: every event of an existing object is processed.
Dispatch_anyGeneration(object) ==
    IF object.resourceState = "not_exists" THEN "deleted" ELSE "process"

Dispatch(object) ==
    IF object.resourceState = "not_exists" THEN "deleted"
    ELSE IF object.metageneration = "1" THEN "process"
    ELSE "updated"

\* The handler tells its caller how it ended: a resolved or rejected promise
\* (index.js), a call of callback (part_000).
Signal(i, how) ==
    /\ signal' = [signal EXCEPT ![i] = how]
    /\ completions' = [completions EXCEPT ![i] = @ + 1]

----------------------------------------------------------------------------
(* src/index.js *)

\* The calls of processFile's promise chain, in the words of the code.
IndexCalls == {"download", "getDominantColor", "getMetadata",
               "readImageDimensions", "convertImage", "readFinalDimensions",
               "readFile", "writeFile", "uploadFile"}

\* exports.thumbnails(event), and the synchronous head of processFile.
Thumbnails(i) ==
    /\ rev = "index"
    /\ pc[i] = "start"
    /\ IF Dispatch(event[i]) = "process"
       THEN /\ tempLocalFilename' = [tempLocalFilename EXCEPT ![i] = uuidv4(i, 1)]
            /\ trace' = Logged(i, <<Call("download")>>)
            /\ pc' = [pc EXCEPT ![i] = "download"]
            /\ UNCHANGED <<signal, completions>>
       ELSE /\ Signal(i, "success")
            /\ pc' = [pc EXCEPT ![i] = "done"]
            /\ UNCHANGED <<tempLocalFilename, trace>>
    /\ UNCHANGED <<rev, event, source, encoded, fs, bucket, tempDataFilename, dominantColor,
                   originalMetadata, thumbSize, finalDimensions, thumbData,
                   uploadOptions, debugUpload, scan, ext, plan>>

\* file.download resolved: the object is in the scratch file (line 326).
DownloadDone(i) ==
    /\ rev = "index"
    /\ pc[i] = "download"
    /\ fs' = [fs EXCEPT ![tempLocalFilename[i]] = ImageFile(i, source[i], "orig")]
    /\ trace' = Logged(i, <<Ok("download"), Call("getDominantColor")>>)
    /\ pc' = [pc EXCEPT ![i] = "getDominantColor"]
    /\ UNCHANGED <<rev, event, source, encoded, bucket, signal, completions,
                   tempLocalFilename, tempDataFilename, dominantColor,
                   originalMetadata, thumbSize, finalDimensions, thumbData,
                   uploadOptions, debugUpload, scan, ext, plan>>

\* dc(imageFilePath) called back with the color of the file (lines 329-332).
GetDominantColorDone(i) ==
    /\ rev = "index"
    /\ pc[i] = "getDominantColor"
    /\ dominantColor' = [dominantColor EXCEPT
                           ![i] = Catalog[fs[tempLocalFilename[i]].obj].color]
    /\ trace' = Logged(i, <<Ok("getDominantColor"), Call("getMetadata")>>)
    /\ pc' = [pc EXCEPT ![i] = "getMetadata"]
    /\ UNCHANGED <<rev, event, source, encoded, fs, bucket, signal, completions,
                   tempLocalFilename, tempDataFilename, originalMetadata,
                   thumbSize, finalDimensions, thumbData, uploadOptions, debugUpload,
                   scan, ext, plan>>

\* file.getMetadata resolved: data[0].metadata || {} (lines 333-338).
GetMetadataDone(i) ==
    /\ rev = "index"
    /\ pc[i] = "getMetadata"
    /\ originalMetadata' = [originalMetadata EXCEPT
                              ![i] = IF Catalog[source[i]].hasMetadata
                                     THEN Catalog[source[i]].metadata
                                     ELSE {}]
    /\ trace' = Logged(i, <<Ok("getMetadata"), Call("readImageDimensions")>>)
    /\ pc' = [pc EXCEPT ![i] = "readImageDimensions"]
    /\ UNCHANGED <<rev, event, source, encoded, fs, bucket, signal, completions,
                   tempLocalFilename, tempDataFilename, dominantColor,
                   thumbSize, finalDimensions, thumbData, uploadOptions, debugUpload,
                   scan, ext, plan>>

\* im.identify called back; thumbnailize calls convertImage, which plans the
\* size and calls im.convert (lines 339-342, 292, 119-144).
ReadImageDimensionsDone(i) ==
    /\ rev = "index"
    /\ pc[i] = "readImageDimensions"
    /\ LET features == identify(fs[tempLocalFilename[i]]) IN
       thumbSize' = [thumbSize EXCEPT
                       ![i] = planSize(features.width, features.height)]
    /\ trace' = Logged(i, <<Ok("readImageDimensions"), Call("convertImage")>>)
    /\ pc' = [pc EXCEPT ![i] = "convertImage"]
    /\ UNCHANGED <<rev, event, source, encoded, fs, bucket, signal, completions,
                   tempLocalFilename, tempDataFilename, dominantColor,
                   originalMetadata, finalDimensions, thumbData, uploadOptions,
                   debugUpload, scan, ext, plan>>

\* im.convert called back: the scratch file now holds the thumbnail; its
\* size is identified again (lines 144-150, 293-297).
ConvertImageDone(i) ==
    /\ rev = "index"
    /\ pc[i] = "convertImage"
    /\ fs' = [fs EXCEPT ![tempLocalFilename[i]] = ImageFile(i, @.obj, "resized")]
    /\ trace' = Logged(i, <<Ok("convertImage"), Call("readFinalDimensions")>>)
    /\ pc' = [pc EXCEPT ![i] = "readFinalDimensions"]
    /\ UNCHANGED <<rev, event, source, encoded, bucket, signal, completions,
                   tempLocalFilename, tempDataFilename, dominantColor,
                   originalMetadata, thumbSize, finalDimensions, thumbData,
                   uploadOptions, debugUpload, scan, ext, plan>>

\* processFile's catch (lines 347-350): the returned promise is rejected.
Rejected(i, events) ==
    /\ trace' = Logged(i, events)
    /\ pc' = [pc EXCEPT ![i] = "done"]
    /\ Signal(i, "error")

\* A faulty variant: the header is given the size convertImage asked for.
headerDimensions_converted(converted, identified) ==
    [width |-> converted.width.n, height |-> converted.height.n]

\* thumbnailize hands extractThumbData what readImageDimensions resolved after
\* the conversion; what convertImage resolved is dropped (lines 293-302).
headerDimensions(converted, identified) == identified

\* im.identify called back with the thumbnail's dimensions; extractThumbData
\* checks them and calls fs.readFile (lines 298-302, 189-196).
ReadFinalDimensionsDone(i) ==
    /\ rev = "index"
    /\ pc[i] = "readFinalDimensions"
    /\ LET features == headerDimensions(thumbSize[i],
                                        identify(fs[tempLocalFilename[i]])) IN
       /\ finalDimensions' = [finalDimensions EXCEPT ![i] = features]
       /\ IF InvalidDimensions(features)
          THEN Rejected(i, <<Ok("readFinalDimensions"), Err("extractThumbData")>>)
          ELSE /\ trace' = Logged(i, <<Ok("readFinalDimensions"), Call("readFile")>>)
               /\ pc' = [pc EXCEPT ![i] = "readFile"]
               /\ UNCHANGED <<signal, completions>>
    /\ UNCHANGED <<rev, event, source, encoded, fs, bucket, tempLocalFilename,
                   tempDataFilename, dominantColor, originalMetadata, thumbSize,
                   thumbData, uploadOptions, debugUpload, scan, ext, plan>>

\* fs.readFile called back with the file's bytes: the record is cut out, and
\* storeThumbData names a second scratch file and calls fs.writeFile
\* (lines 196-231, 303-306, 245-254).
ReadFileDone(i) ==
    /\ rev = "index"
    /\ pc[i] = "readFile"
    /\ LET data == readFile(fs[tempLocalFilename[i]])
           result == extractFromData(data, finalDimensions[i])
       IN  IF result.ok
           THEN /\ thumbData' = [thumbData EXCEPT ![i] = result.value]
                /\ tempDataFilename' = [tempDataFilename EXCEPT ![i] = uuidv4(i, 2)]
                /\ trace' = Logged(i, <<Ok("readFile"), Ok("extractThumbData"),
                                        Call("writeFile")>>)
                /\ pc' = [pc EXCEPT ![i] = "writeFile"]
                /\ UNCHANGED <<signal, completions>>
           ELSE /\ Rejected(i, <<Ok("readFile"), Err("extractThumbData")>>)
                /\ UNCHANGED <<thumbData, tempDataFilename>>
    /\ UNCHANGED <<rev, event, source, encoded, fs, bucket, tempLocalFilename,
                   dominantColor, originalMetadata, thumbSize, finalDimensions,
                   uploadOptions, debugUpload, scan, ext, plan>>

\* A faulty variant: the computed color overrides the original metadata.
mergedMetadata_computedWins(color, original) ==
    ObjectAssign(original, {<<"dominantColor", color>>})

\* The metadata of the artifact (lines 260-265).
mergedMetadata(color, original) ==
    ObjectAssign({<<"dominantColor", color>>}, original)

\* fs.writeFile called back: the record is in its scratch file; the metadata
\* are merged and uploadFile is called (lines 254-269, 88-99).
WriteFileDone(i) ==
    /\ rev = "index"
    /\ pc[i] = "writeFile"
    /\ fs' = [fs EXCEPT ![tempDataFilename[i]] = DataFile(i, thumbData[i])]
    /\ uploadOptions' = [uploadOptions EXCEPT ![i] =
           [destination |-> event[i].name \o <<".thumbdata">>,
            contentType |-> "application/octet-stream",
            metadata |-> mergedMetadata(dominantColor[i], originalMetadata[i])]]
    /\ trace' = Logged(i, <<Ok("writeFile"), Call("uploadFile")>>)
    /\ pc' = [pc EXCEPT ![i] = "uploadFile"]
    /\ UNCHANGED <<rev, event, source, encoded, bucket, signal, completions,
                   tempLocalFilename, tempDataFilename, dominantColor,
                   originalMetadata, thumbSize, finalDimensions, thumbData,
                   debugUpload, scan, ext, plan>>

\* An object written to the output bucket from the scratch file at path.
Uploaded(i, path, options) ==
    [by |-> i, destination |-> options.destination,
     contentType |-> options.contentType, metadata |-> options.metadata,
     body |-> fs[path]]

\* bucket.upload called back: the artifact is in the output bucket and the
\* returned promise resolves (lines 99-107, 270-272, 343-346).
UploadFileDone(i) ==
    /\ rev = "index"
    /\ pc[i] = "uploadFile"
    /\ bucket' = bucket \cup {Uploaded(i, tempDataFilename[i], uploadOptions[i])}
    /\ trace' = Logged(i, <<Ok("uploadFile")>>)
    /\ pc' = [pc EXCEPT ![i] = "done"]
    /\ Signal(i, "success")
    /\ UNCHANGED <<rev, event, source, encoded, fs, tempLocalFilename, tempDataFilename,
                   dominantColor, originalMetadata, thumbSize, finalDimensions,
                   thumbData, uploadOptions, debugUpload, scan, ext, plan>>

\* The call in flight calls back with an error: every later then is skipped
\* and the catch rejects the returned promise. A failed call leaves the
\* scratch files and the bucket as they were.
CallFails(i) ==
    /\ rev = "index"
    /\ pc[i] \in IndexCalls
    /\ Rejected(i, <<Err(pc[i])>>)
    /\ UNCHANGED <<rev, event, source, encoded, fs, bucket, tempLocalFilename,
                   tempDataFilename, dominantColor, originalMetadata, thumbSize,
                   finalDimensions, thumbData, uploadOptions, debugUpload,
                   scan, ext, plan>>

NextIndex ==
    \E i \in Inv :
        \/ Thumbnails(i)
        \/ DownloadDone(i)
        \/ GetDominantColorDone(i)
        \/ GetMetadataDone(i)
        \/ ReadImageDimensionsDone(i)
        \/ ConvertImageDone(i)
        \/ ReadFinalDimensionsDone(i)
        \/ ReadFileDone(i)
        \/ WriteFileDone(i)
        \/ UploadFileDone(i)
        \/ CallFails(i)

InitIndex == Init /\ rev = "index"

SpecIndex == InitIndex /\ [][NextIndex]_vars

----------------------------------------------------------------------------
(* src/unnamed/part_000 *)

\* The calls whose error reaches a reject of processFile's promise.
Part000Calls == {"identify", "downscaleImage", "blurImage", "uploadFile"}

\* A faulty variant: the callback is invoked at every settling.
Settle_p0_again(i) == Signal(i, "success")

\* resolve or reject of processFile's promise, and the handler's reaction
\* (lines 197-205): callback() is called, with no argument, on both. A
\* promise settles once; settling it again does nothing.
Settle_p0(i) ==
    IF signal[i] = "none"
    THEN Signal(i, "success")
    ELSE UNCHANGED <<signal, completions>>

\* exports.thumbnails(event, callback), and the synchronous head of processFile
\* (lines 183-210, 138-148).
Thumbnails_p0(i) ==
    /\ rev = "part000"
    /\ pc[i] = "start"
    /\ IF Dispatch(event[i]) = "process"
       THEN /\ tempLocalFilename' = [tempLocalFilename EXCEPT ![i] = uuidv4(i, 1)]
            /\ trace' = Logged(i, <<Call("download")>>)
            /\ pc' = [pc EXCEPT ![i] = "download"]
            /\ UNCHANGED <<signal, completions>>
       ELSE /\ Signal(i, "success")
            /\ pc' = [pc EXCEPT ![i] = "done"]
            /\ UNCHANGED <<tempLocalFilename, trace>>
    /\ UNCHANGED <<rev, event, source, encoded, fs, bucket, tempDataFilename, dominantColor,
                   originalMetadata, thumbSize, finalDimensions, thumbData,
                   uploadOptions, debugUpload, scan, ext, plan>>

\* file.download resolved: the catch is passed over and the then calls
\* im.identify (lines 153-157).
DownloadDone_p0(i) ==
    /\ rev = "part000"
    /\ pc[i] = "download"
    /\ fs' = [fs EXCEPT ![tempLocalFilename[i]] = ImageFile(i, source[i], "orig")]
    /\ trace' = Logged(i, <<Ok("download"), Call("identify")>>)
    /\ pc' = [pc EXCEPT ![i] = "identify"]
    /\ UNCHANGED <<rev, event, source, encoded, bucket, signal, completions,
                   tempLocalFilename, tempDataFilename, dominantColor,
                   originalMetadata, thumbSize, finalDimensions, thumbData,
                   uploadOptions, debugUpload, scan, ext, plan>>

\* file.download rejected: the catch rejects processFile's promise and returns,
\* so the promise it yields is fulfilled and the then after it still runs and
\* calls im.identify (lines 149-157). No file was written.
DownloadFails_p0(i) ==
    /\ rev = "part000"
    /\ pc[i] = "download"
    /\ Settle_p0(i)
    /\ trace' = Logged(i, <<Err("download"), Call("identify")>>)
    /\ pc' = [pc EXCEPT ![i] = "identify"]
    /\ UNCHANGED <<rev, event, source, encoded, fs, bucket, tempLocalFilename,
                   tempDataFilename, dominantColor, originalMetadata, thumbSize,
                   finalDimensions, thumbData, uploadOptions, debugUpload,
                   scan, ext, plan>>

\* im.identify called back with the features of the file, which must exist;
\* thumbnailize calls downscaleImage, which plans the size and calls
\* im.resize (lines 157-163, 118-121, 59-78).
IdentifyDone_p0(i) ==
    /\ rev = "part000"
    /\ pc[i] = "identify"
    /\ fs[tempLocalFilename[i]] # NoFile
    /\ LET features == identify(fs[tempLocalFilename[i]]) IN
       thumbSize' = [thumbSize EXCEPT
                       ![i] = planSize(features.width, features.height)]
    /\ trace' = Logged(i, <<Ok("identify"), Call("downscaleImage")>>)
    /\ pc' = [pc EXCEPT ![i] = "downscaleImage"]
    /\ UNCHANGED <<rev, event, source, encoded, fs, bucket, signal, completions,
                   tempLocalFilename, tempDataFilename, dominantColor,
                   originalMetadata, finalDimensions, thumbData, uploadOptions,
                   debugUpload, scan, ext, plan>>

\* im.resize called back: the file holds the thumbnail. A debug upload of it
\* is started and not waited for, and blurImage calls im.convert
\* (lines 78-84, 122-129, 26-39, 94-99).
DownscaleImageDone_p0(i) ==
    /\ rev = "part000"
    /\ pc[i] = "downscaleImage"
    /\ fs' = [fs EXCEPT ![tempLocalFilename[i]] = ImageFile(i, @.obj, "resized")]
    /\ debugUpload' = [debugUpload EXCEPT ![i] = "inflight"]
    /\ trace' = Logged(i, <<Ok("downscaleImage"), Call("debugUpload"),
                            Call("blurImage")>>)
    /\ pc' = [pc EXCEPT ![i] = "blurImage"]
    /\ UNCHANGED <<rev, event, source, encoded, bucket, signal, completions,
                   tempLocalFilename, tempDataFilename, dominantColor,
                   originalMetadata, thumbSize, finalDimensions, thumbData,
                   uploadOptions, scan, ext, plan>>

\* im.convert called back: the file is blurred, and is uploaded as
\* 'blurred-' + originalFileName (lines 99-107, 130-135, 26-39).
BlurImageDone_p0(i) ==
    /\ rev = "part000"
    /\ pc[i] = "blurImage"
    /\ fs' = [fs EXCEPT ![tempLocalFilename[i]] = ImageFile(i, @.obj, "blurred")]
    /\ uploadOptions' = [uploadOptions EXCEPT ![i] =
           [destination |-> <<"blurred-">> \o event[i].name,
            contentType |-> "image/jpeg", metadata |-> {}]]
    /\ trace' = Logged(i, <<Ok("blurImage"), Call("uploadFile")>>)
    /\ pc' = [pc EXCEPT ![i] = "uploadFile"]
    /\ UNCHANGED <<rev, event, source, encoded, bucket, signal, completions,
                   tempLocalFilename, tempDataFilename, dominantColor,
                   originalMetadata, thumbSize, finalDimensions, thumbData,
                   debugUpload, scan, ext, plan>>

\* bucket.upload called back: thumbnailize's promise resolves, processFile
\* resolves and the handler calls callback (lines 39-47, 164-167, 198-201).
UploadFileDone_p0(i) ==
    /\ rev = "part000"
    /\ pc[i] = "uploadFile"
    /\ bucket' = bucket \cup {Uploaded(i, tempLocalFilename[i], uploadOptions[i])}
    /\ trace' = Logged(i, <<Ok("uploadFile")>>)
    /\ pc' = [pc EXCEPT ![i] = "done"]
    /\ Settle_p0(i)
    /\ UNCHANGED <<rev, event, source, encoded, fs, tempLocalFilename, tempDataFilename,
                   dominantColor, originalMetadata, thumbSize, finalDimensions,
                   thumbData, uploadOptions, debugUpload, scan, ext, plan>>

\* The call in flight calls back with an error: processFile's promise is
\* rejected (lines 158-160, 168-171) and the handler calls callback().
CallFails_p0(i) ==
    /\ rev = "part000"
    /\ pc[i] \in Part000Calls
    /\ trace' = Logged(i, <<Err(pc[i])>>)
    /\ pc' = [pc EXCEPT ![i] = "done"]
    /\ Settle_p0(i)
    /\ UNCHANGED <<rev, event, source, encoded, fs, bucket, tempLocalFilename,
                   tempDataFilename, dominantColor, originalMetadata, thumbSize,
                   finalDimensions, thumbData, uploadOptions, debugUpload,
                   scan, ext, plan>>

\* The debug upload called back: the file, as it is when the upload reads it,
\* is in the output bucket under the object's own name (line 126).
DebugUploadDone_p0(i) ==
    /\ rev = "part000"
    /\ debugUpload[i] = "inflight"
    /\ bucket' = bucket \cup
         {Uploaded(i, tempLocalFilename[i],
                   [destination |-> event[i].name, contentType |-> "image/jpeg",
                    metadata |-> {}])}
    /\ debugUpload' = [debugUpload EXCEPT ![i] = "done"]
    /\ trace' = Logged(i, <<Ok("debugUpload")>>)
    /\ UNCHANGED <<rev, event, source, encoded, pc, fs, signal, completions,
                   tempLocalFilename, tempDataFilename, dominantColor,
                   originalMetadata, thumbSize, finalDimensions, thumbData,
                   uploadOptions, scan, ext, plan>>

\* The debug upload failed: its promise is rejected and nobody handles it.
DebugUploadFails_p0(i) ==
    /\ rev = "part000"
    /\ debugUpload[i] = "inflight"
    /\ debugUpload' = [debugUpload EXCEPT ![i] = "failed"]
    /\ trace' = Logged(i, <<Err("debugUpload")>>)
    /\ UNCHANGED <<rev, event, source, encoded, pc, fs, bucket, signal, completions,
                   tempLocalFilename, tempDataFilename, dominantColor,
                   originalMetadata, thumbSize, finalDimensions, thumbData,
                   uploadOptions, scan, ext, plan>>

NextPart000 ==
    \E i \in Inv :
        \/ Thumbnails_p0(i)
        \/ DownloadDone_p0(i)
        \/ DownloadFails_p0(i)
        \/ IdentifyDone_p0(i)
        \/ DownscaleImageDone_p0(i)
        \/ BlurImageDone_p0(i)
        \/ UploadFileDone_p0(i)
        \/ CallFails_p0(i)
        \/ DebugUploadDone_p0(i)
        \/ DebugUploadFails_p0(i)

InitPart000 == Init /\ rev = "part000"

SpecPart000 == InitPart000 /\ [][NextPart000]_vars

----------------------------------------------------------------------------
(* Either revision deployed *)

Next == NextIndex \/ NextPart000

Spec == Init /\ [][Next]_vars

\* A callback of a call invocation i has in flight.
Callback(i) ==
    \/ DownloadDone(i)
    \/ GetDominantColorDone(i)
    \/ GetMetadataDone(i)
    \/ ReadImageDimensionsDone(i)
    \/ ConvertImageDone(i)
    \/ ReadFinalDimensionsDone(i)
    \/ ReadFileDone(i)
    \/ WriteFileDone(i)
    \/ UploadFileDone(i)
    \/ CallFails(i)
    \/ DownloadDone_p0(i)
    \/ DownloadFails_p0(i)
    \/ IdentifyDone_p0(i)
    \/ DownscaleImageDone_p0(i)
    \/ BlurImageDone_p0(i)
    \/ UploadFileDone_p0(i)
    \/ CallFails_p0(i)
    \/ DebugUploadDone_p0(i)
    \/ DebugUploadFails_p0(i)

\* Every call the handler makes calls back, with a result or with an error:
\* the runtime runs a callback that is due.
CallsBack == \A i \in Inv : WF_vars(Callback(i))

SpecLive == Init /\ [][Next]_vars /\ CallsBack

----------------------------------------------------------------------------
(* The scanner and the record builder on every small buffer *)

\* The escape byte, the two markers and a plain byte.
ByteValues == {ESCAPE, SOS, EOI, 0}

Buffers == UNION { [1 .. n -> ByteValues] : n \in 0 .. MaxLen }

\* Widths below and above one byte, 0 and multiples of 256 among them, and
\* some heights.
DimValues == { 256 * k + b : k \in 0 .. MaxWrap, b \in {0, 37} }
HeightValues == {0, 41, 256, 297}

\* The markers searched for: the code's two, and the escape byte itself.
Markers == {SOS, EOI, ESCAPE}

Created(i) ==
    [resourceState |-> "exists", metageneration |-> "1", name |-> ObjectName(i)]
Deleted(i) ==
    [resourceState |-> "not_exists", metageneration |-> "1", name |-> ObjectName(i)]

\* findMarker entered with any marker, any buffer and any start in it.
InitScan ==
    /\ rev = "index"
    /\ event = [i \in Inv |-> Deleted(i)]
    /\ source = [i \in Inv |-> 1]
    /\ encoded = [o \in Objects |-> Catalog[o].jpeg]
    /\ InitHandlers
    /\ scan \in { [marker |-> m, startIndex |-> st, data |-> d,
                   s |-> findMarkerEnter(st), steps |-> 0, active |-> TRUE] :
                  m \in Markers, st \in 0 .. MaxLen, d \in Buffers }
    /\ scan.startIndex <= Len(scan.data)
    /\ ext = ExtIdle
    /\ plan = PlanIdle

\* One turn of findMarker's loop; steps counts the executions of its body.
ScanStep ==
    /\ scan.active
    /\ ~scan.s.done
    /\ scan' = [scan EXCEPT
                  !.s = findMarkerStep(scan.marker, scan.data, scan.s),
                  !.steps = IF scan.s.index < Len(scan.data) THEN @ + 1 ELSE @]
    /\ UNCHANGED <<pipelineVars, ext, plan>>

NextScan == ScanStep

SpecScan == InitScan /\ [][NextScan]_vars

\* extractThumbData about to be applied to any buffer and any dimensions.
InitExtract ==
    /\ rev = "index"
    /\ event = [i \in Inv |-> Deleted(i)]
    /\ source = [i \in Inv |-> 1]
    /\ encoded = [o \in Objects |-> Catalog[o].jpeg]
    /\ InitHandlers
    /\ scan = ScanIdle
    /\ ext \in { [data |-> d, dimensions |-> [width |-> w, height |-> h],
                  applied |-> FALSE, out |-> Reject(""), active |-> TRUE] :
                 d \in Buffers, w \in DimValues, h \in HeightValues }
    /\ plan = PlanIdle

ExtractApply ==
    /\ ext.active
    /\ ~ext.applied
    /\ ext' = [ext EXCEPT !.applied = TRUE,
                          !.out = extractThumbData(ext.data, ext.dimensions)]
    /\ UNCHANGED <<pipelineVars, scan, plan>>

NextExtract == ExtractApply

SpecExtract == InitExtract /\ [][NextExtract]_vars

\* Sides of a source image: short ones of either sign and zero, and long ones
\* up to 40000, so that strips more than 10000 times longer than wide occur.
LongSides == {100, 2622, 3904, 10000, 10001, 40000}
SideValues == ((0 - 2) .. MaxSide) \cup LongSides

\* The size calculation about to be applied to any width and height.
InitPlan ==
    /\ rev = "index"
    /\ event = [i \in Inv |-> Deleted(i)]
    /\ source = [i \in Inv |-> 1]
    /\ encoded = [o \in Objects |-> Catalog[o].jpeg]
    /\ InitHandlers
    /\ scan = ScanIdle
    /\ ext = ExtIdle
    /\ plan \in { [width |-> w, height |-> h, applied |-> FALSE, out |-> NoSize,
                   active |-> TRUE] : w \in SideValues, h \in SideValues }

PlanApply ==
    /\ plan.active
    /\ ~plan.applied
    /\ plan' = [plan EXCEPT !.applied = TRUE,
                            !.out = planSize(plan.width, plan.height)]
    /\ UNCHANGED <<pipelineVars, scan, ext>>

NextPlan == PlanApply

SpecPlan == InitPlan /\ [][NextPlan]_vars

\* The handler of index.js on one created object whose resized file holds any
\* buffer; the other event is a deletion.
InitRecord ==
    /\ rev = "index"
    /\ event = [i \in Inv |-> IF i = 1 THEN Created(i) ELSE Deleted(i)]
    /\ source = [i \in Inv |-> 1]
    /\ encoded \in { [o \in Objects |-> IF o = 1 THEN b ELSE Catalog[o].jpeg] :
                     b \in Buffers }
    /\ InitHandlers
    /\ scan = ScanIdle
    /\ ext = ExtIdle
    /\ plan = PlanIdle

SpecRecord == InitRecord /\ [][NextIndex]_vars

----------------------------------------------------------------------------
(* What the properties speak of *)

\* Some call of the invocation ended with an error.
Failed(t) == \E k \in DOMAIN t : t[k][1] = "err"

\* A call was issued after a call had ended with an error.
CallAfterError(t) ==
    \E k, l \in DOMAIN t : k < l /\ t[k][1] = "err" /\ t[l][1] = "call"

\* A call ended with an error before the final upload had completed.
FailedBeforeUpload(t) ==
    \E k \in DOMAIN t :
        /\ t[k][1] = "err"
        /\ \A l \in 1 .. k - 1 : t[l] # Ok("uploadFile")

\* The objects invocation i wrote to the output bucket.
Written(i) == { o \in bucket : o.by = i }

\* The scratch names invocation i has generated.
ScratchNames(i) == {tempLocalFilename[i], tempDataFilename[i]} \ {0}

\* The scratch files invocation i has written.
ScratchFiles(i) == { p \in Paths : fs[p].by = i }

\* n mod 256 for n >= 0.
LowByte(n) == n - 256 * (n \div 256)

\* The positions k >= from at which buffer d holds the pair 0xFF, m.
Pairs(d, m, from) ==
    { k \in from .. Len(d) - 2 : d[k + 1] = 255 /\ d[k + 2] = m }

Least(S) == CHOOSE k \in S : \A l \in S : k <= l

----------------------------------------------------------------------------
(* C1 *)

\* C1: an event whose resourceState is 'not_exists', whatever its
\* metageneration, makes the handler issue no call at all (no download, codec,
\* dominant-color or upload call), write nothing, and signal success.
C1_DeletedObjectIsIgnored ==
    \A i \in Inv :
        event[i].resourceState = "not_exists" =>
            /\ trace[i] = <<>>
            /\ Written(i) = {}
            /\ ScratchFiles(i) = {}
            /\ pc[i] \in {"start", "done"}
            /\ signal[i] # "error"
            /\ pc[i] = "done" => signal[i] = "success"

C1_Witness ==
    \E i \in Inv :
        /\ event[i].resourceState = "not_exists"
        /\ event[i].metageneration = "1"
        /\ pc[i] = "done"
        /\ signal[i] = "success"

----------------------------------------------------------------------------
(* C2 *)

\* C2: an event of an existing object whose metageneration is not '1' makes
\* the handler issue no call, create no scratch file, write nothing, and
\* signal success.
C2_MetadataUpdateIsIgnored ==
    \A i \in Inv :
        (event[i].resourceState # "not_exists" /\ event[i].metageneration # "1") =>
            /\ trace[i] = <<>>
            /\ Written(i) = {}
            /\ ScratchNames(i) = {}
            /\ ScratchFiles(i) = {}
            /\ pc[i] \in {"start", "done"}
            /\ signal[i] # "error"
            /\ pc[i] = "done" => signal[i] = "success"

C2_Witness ==
    \E i \in Inv :
        /\ event[i].resourceState = "exists"
        /\ event[i].metageneration = "2"
        /\ pc[i] = "done"
        /\ signal[i] = "success"

----------------------------------------------------------------------------
(* C3 *)

\* The artifact the claim describes, for the invocation that wrote it.
IsThumbData(o) ==
    /\ o.destination = event[o.by].name \o <<".thumbdata">>
    /\ o.contentType = "application/octet-stream"
    /\ Len(o.body.bytes) >= 4
    /\ SubSeq(o.body.bytes, 1, 4) =
           <<1, 1, LowByte(Catalog[source[o.by]].finalWidth),
                   LowByte(Catalog[source[o.by]].finalHeight)>>

\* An invocation for a created object that ended with no call failing.
Succeeded(i) ==
    /\ event[i].resourceState = "exists"
    /\ event[i].metageneration = "1"
    /\ pc[i] = "done"
    /\ debugUpload[i] # "inflight"
    /\ ~Failed(trace[i])

\* C3: an invocation for a created object (metageneration '1') in which every
\* call succeeds writes exactly one object to the output bucket, named
\* <name>.thumbdata, of type application/octet-stream, starting with the bytes
\* 1, 1, width mod 256, height mod 256 of the thumbnail.
C3_OneThumbDataArtifact ==
    \A i \in Inv :
        Succeeded(i) =>
            /\ Cardinality(Written(i)) = 1
            /\ \A o \in Written(i) : IsThumbData(o)

\* The same of index.js alone (it holds under SpecIndex).
C3_IndexOneThumbDataArtifact == rev = "index" => C3_OneThumbDataArtifact

C3_IndexWitness ==
    \E i \in Inv : Succeeded(i) /\ Catalog[source[i]].finalWidth >= 256

----------------------------------------------------------------------------
(* C4 *)

\* C4: once a call of an invocation has failed, the invocation issues no
\* further call, and the handler reports the error, never success.
C4_FailureStopsAndIsReported ==
    \A i \in Inv :
        Failed(trace[i]) =>
            /\ ~CallAfterError(trace[i])
            /\ signal[i] # "success"
            /\ pc[i] = "done" => signal[i] = "error"

\* The same of index.js alone (it holds under SpecIndex).
C4_IndexFailureStopsAndIsReported == rev = "index" => C4_FailureStopsAndIsReported

----------------------------------------------------------------------------
(* C5 *)

\* C5: an invocation in which a call failed before the final upload completed
\* has written no object to the output bucket.
C5_NoArtifactAfterFailure ==
    \A i \in Inv : FailedBeforeUpload(trace[i]) => Written(i) = {}

\* The same of index.js alone (it holds under SpecIndex).
C5_IndexNoArtifactAfterFailure == rev = "index" => C5_NoArtifactAfterFailure

----------------------------------------------------------------------------
(* C6 *)

\* C6: when an invocation signals completion, with success or with an error,
\* none of the scratch files it created is left in /tmp.
C6_ScratchFilesRemoved ==
    \A i \in Inv : signal[i] # "none" => ScratchFiles(i) = {}

----------------------------------------------------------------------------
(* C7 *)

\* What invocation i uploads when it runs alone: a function of its own event
\* and object only.
ExpectedArtifact(i) ==
    LET o == Catalog[source[i]] IN
    [by |-> i,
     destination |-> event[i].name \o <<".thumbdata">>,
     contentType |-> "application/octet-stream",
     metadata |-> mergedMetadata(o.color, IF o.hasMetadata THEN o.metadata ELSE {}),
     body |-> DataFile(i, extractThumbData(encoded[source[i]],
                  [width |-> o.finalWidth, height |-> o.finalHeight]).value)]

\* C7: two concurrent invocations of index.js for different objects never
\* share a scratch name, every scratch file was written by the invocation
\* that named it, the locals of an invocation hold values of its own object
\* only, and what an invocation uploads is what it uploads when run alone.
C7_InvocationsAreIsolated ==
    /\ \A i, j \in Inv : i # j => ScratchNames(i) \cap ScratchNames(j) = {}
    /\ \A p \in Paths : fs[p] # NoFile => p \in ScratchNames(fs[p].by)
    /\ \A i \in Inv :
        LET o == Catalog[source[i]] IN
        /\ dominantColor[i] \in {"", o.color}
        /\ thumbSize[i] \in {NoSize, planSize(o.width, o.height)}
        /\ finalDimensions[i] \in
              {NoDimensions, [width |-> o.finalWidth, height |-> o.finalHeight]}
    /\ \A o \in bucket : o = ExpectedArtifact(o.by)

\* Both invocations are in flight at once, each about to finish its upload.
C7_Witness ==
    /\ source[1] # source[2]
    /\ pc[1] = "uploadFile"
    /\ pc[2] = "uploadFile"

----------------------------------------------------------------------------
(* C8 *)

\* C8: findMarker(marker, startIndex, data) returns the least k >= startIndex
\* with data[k] = 0xFF and data[k+1] = marker, and null when there is none (so
\* a marker byte with no 0xFF before it in the scanned range is not reported);
\* the loop body runs at most data.length - startIndex times.
C8_FindMarkerFindsFirstPair ==
    scan.active =>
        LET hits == Pairs(scan.data, scan.marker, scan.startIndex)
            found == findMarker(scan.marker, scan.startIndex, scan.data)
        IN  /\ hits = {} => found = null
            /\ hits # {} => found = Least(hits)
            /\ scan.steps <= Len(scan.data) - scan.startIndex
            /\ scan.s.done => scan.s.ret = found

\* A finished scan that started past an earlier pair, stepped over a marker
\* byte with no escape byte before it, and then found a pair.
C8_Witness ==
    /\ scan.active
    /\ scan.s.done
    /\ scan.startIndex > 0
    /\ Pairs(scan.data, scan.marker, 0) # Pairs(scan.data, scan.marker, scan.startIndex)
    /\ scan.s.ret # null
    /\ \E k \in scan.startIndex .. scan.s.ret - 1 : scan.data[k + 1] = scan.marker

----------------------------------------------------------------------------
(* C9 *)

\* C9: for a buffer whose first 0xFF,0xDA pair is at i and whose first
\* 0xFF,0xD9 pair after it is at j, and non-zero width and height,
\* extractThumbData yields the bytes 1, 1, width mod 256, height mod 256
\* followed by exactly buffer[i+2 .. j-1].
C9_RecordIsHeaderAndPayload ==
    (ext.active /\ ext.applied) =>
        LET d == ext.data
            w == ext.dimensions.width
            h == ext.dimensions.height
            starts == Pairs(d, 218, 0)
        IN  (w # 0 /\ h # 0 /\ starts # {}) =>
                LET i == Least(starts)
                    ends == Pairs(d, 217, i + 1)
                IN  ends # {} =>
                        LET j == Least(ends) IN
                        /\ ext.out.ok
                        /\ ext.out.value =
                             <<1, 1, LowByte(w), LowByte(h)>>
                                \o [k \in 1 .. j - i - 2 |-> d[i + 2 + k]]

\* A record with a payload, cut from behind a leading byte, whose width is
\* 256 or more.
C9_Witness ==
    /\ ext.active
    /\ ext.applied
    /\ ext.out.ok
    /\ ext.dimensions.width >= 256
    /\ Len(ext.out.value) > 4
    /\ 0 \notin Pairs(ext.data, 218, 0)

----------------------------------------------------------------------------
(* C10 *)

\* The buffer has no 0xFF,0xDA pair, or has one and no 0xFF,0xD9 pair after
\* the first.
LacksMarker(d) ==
    \/ Pairs(d, 218, 0) = {}
    \/ Pairs(d, 217, Least(Pairs(d, 218, 0)) + 1) = {}

\* C10: when the resized file lacks the start marker, or the end marker after
\* it, extractThumbData rejects with 'SOS marker not found' or 'EOI marker not
\* found': no record is produced, no thumb-data file is written, nothing is
\* uploaded, and the invocation ends with that error.
C10_MissingMarkerIsAnError ==
    \A i \in Inv :
        LET d == encoded[source[i]] IN
        (\E k \in DOMAIN trace[i] : trace[i][k] = Ok("readFile")) /\ LacksMarker(d) =>
            /\ ~extractThumbData(d, finalDimensions[i]).ok
            /\ extractThumbData(d, finalDimensions[i]).error =
                  IF Pairs(d, 218, 0) = {} THEN "SOS marker not found"
                  ELSE "EOI marker not found"
            /\ trace[i][Len(trace[i])] = Err("extractThumbData")
            /\ thumbData[i] = <<>>
            /\ ScratchNames(i) = {tempLocalFilename[i]}
            /\ Written(i) = {}
            /\ pc[i] = "done"
            /\ signal[i] = "error"

\* The end marker stands only before the start marker, and the invocation
\* ended with the error.
C10_Witness ==
    \E i \in Inv :
        LET d == encoded[source[i]] IN
        /\ Pairs(d, 218, 0) # {}
        /\ Pairs(d, 217, 0) # {}
        /\ LacksMarker(d)
        /\ pc[i] = "done"
        /\ trace[i] # <<>>
        /\ trace[i][Len(trace[i])] = Err("extractThumbData")

----------------------------------------------------------------------------
(* The size calculation *)

\* C11: for every source of positive width and height, both sides of the
\* size calculated under the budget of 2500 pixels are at least 1.
C11_PlannedSidesArePositive ==
    (plan.applied /\ plan.width > 0 /\ plan.height > 0) =>
        /\ plan.out.width.kind = "finite" /\ plan.out.width.n >= 1
        /\ plan.out.height.kind = "finite" /\ plan.out.height.n >= 1

\* What does hold of the calculation: no side is negative, and a side is 0
\* exactly when the other side of the source is more than 10000 times longer.
C11_SideIsZeroOnlyForStrips ==
    (plan.applied /\ plan.width > 0 /\ plan.height > 0) =>
        /\ plan.out.width.kind = "finite" /\ plan.out.height.kind = "finite"
        /\ plan.out.width.n >= 0 /\ plan.out.height.n >= 0
        /\ plan.out.width.n = 0 <=> plan.height > 4 * PIXEL_BUDGET * plan.width
        /\ plan.out.height.n = 0 <=> plan.width > 4 * PIXEL_BUDGET * plan.height

\* Event ev is in the trace of invocation i.
Happened(i, ev) == \E k \in DOMAIN trace[i] : trace[i][k] = ev

\* Invocation i has identified the size of its source.
Identified(i) ==
    Happened(i, Ok("readImageDimensions")) \/ Happened(i, Ok("identify"))

\* Invocation i has asked the codec to resize the scratch image.
ResizeAsked(i) ==
    Happened(i, Call("convertImage")) \/ Happened(i, Call("downscaleImage"))

\* C12: when the width or the height identified for the source is zero or
\* negative, the size calculation fails and yields no target size, so the
\* codec is not asked to resize (to a NaN, zero or undefined size).
C12_NonPositiveSourceIsRejected ==
    \A i \in Inv :
        (/\ Identified(i)
         /\ \/ Catalog[source[i]].width <= 0
            \/ Catalog[source[i]].height <= 0) =>
            /\ ~ResizeAsked(i)
            /\ thumbSize[i] = NoSize

\* C17: when rounding makes the target width or height 0 (a source 1 wide and
\* 40000 high), the size calculation fails and the codec is not asked to
\* resize to a target with a zero side.
C17_ZeroTargetIsRejected ==
    \A i \in Inv :
        LET o == Catalog[source[i]]
            size == planSize(o.width, o.height)
        IN  (/\ Identified(i)
             /\ o.width > 0 /\ o.height > 0
             /\ size.width = Num(0) \/ size.height = Num(0)) =>
                /\ ~ResizeAsked(i)
                /\ thumbSize[i] = NoSize

----------------------------------------------------------------------------
(* The order of the steps *)

\* C13: every invocation that has uploaded a .thumbdata artifact completed a
\* blur of the scratch image after the resize and before the extraction of
\* the record began.
C13_ArtifactIsFromBlurredImage ==
    \A o \in bucket :
        o.destination = event[o.by].name \o <<".thumbdata">> =>
            LET t == trace[o.by] IN
            \E k, l, m \in DOMAIN t :
                /\ k < l /\ l < m
                /\ t[k] = Ok("convertImage")
                /\ t[l] = Ok("blurImage")
                /\ t[m] = Call("readFile")

\* The steps the order is stated of, by the names of their calls; the record
\* is extracted from what fs.readFile returns.
OrderedSteps ==
    {"download", "readImageDimensions", "getDominantColor", "getMetadata",
     "convertImage", "readFinalDimensions", "blurImage", "readFile",
     "uploadFile"}

\* The steps of OrderedSteps that trace t calls, in the order of the calls.
StepsCalled(t) ==
    LET IsStep(e) == e[1] = "call" /\ e[2] \in OrderedSteps
        calls == SelectSeq(t, IsStep)
    IN  [k \in DOMAIN calls |-> calls[k][2]]

\* C14: in a successful invocation the steps are download, identification of
\* the source's dimensions, dominant color and metadata read (in either
\* order), resize, identification of the final dimensions, blur, extraction
\* of the record, upload, completion; each starts when the one before has
\* completed, and the dimensions are known before color and metadata are
\* fetched.
C14_StepsInOrder ==
    \A i \in Inv :
        (Succeeded(i) /\ rev = "index") =>
            LET t == trace[i] IN
            /\ StepsCalled(t) \in
                 { <<"download", "readImageDimensions", a, b, "convertImage",
                     "readFinalDimensions", "blurImage", "readFile",
                     "uploadFile">> :
                   <<a, b>> \in {<<"getDominantColor", "getMetadata">>,
                                 <<"getMetadata", "getDominantColor">>} }
            /\ \A k \in DOMAIN t :
                   (k > 1 /\ t[k][1] = "call") => t[k - 1][1] = "ok"
            /\ t[Len(t)] = Ok("uploadFile")
            /\ signal[i] = "success"

\* The order index.js does keep (it holds under SpecIndex): color and
\* metadata come before the source's dimensions, and there is no blur.
C14_IndexStepsInOrder ==
    \A i \in Inv :
        (Succeeded(i) /\ rev = "index") =>
            LET t == trace[i] IN
            /\ StepsCalled(t) =
                 <<"download", "getDominantColor", "getMetadata",
                   "readImageDimensions", "convertImage", "readFinalDimensions",
                   "readFile", "uploadFile">>
            /\ \A k \in DOMAIN t :
                   (k > 1 /\ t[k][1] = "call") => t[k - 1][1] = "ok"
            /\ t[Len(t)] = Ok("uploadFile")
            /\ signal[i] = "success"

\* An upload that reads the scratch image of invocation i is in flight.
ImageUploadInFlight(i) ==
    \/ debugUpload[i] = "inflight"
    \/ rev = "part000" /\ pc[i] = "uploadFile"

\* A codec step that rewrites the scratch image of invocation i is in flight.
CodecInFlight(i) == pc[i] \in {"convertImage", "downscaleImage", "blurImage"}

\* C15: within an invocation no upload that reads the scratch image is in
\* flight while a codec step (resize or blur) rewrites it.
C15_NoOverlapOnScratchImage ==
    \A i \in Inv : ~(ImageUploadInFlight(i) /\ CodecInFlight(i))

----------------------------------------------------------------------------
(* The artifact's header and metadata *)

\* The .thumbdata artifacts in the output bucket.
Artifacts ==
    { o \in bucket : o.destination = event[o.by].name \o <<".thumbdata">> }

\* C16: the width and height bytes of an artifact's header are the dimensions
\* an identify call returned after the resize had completed, not the target
\* size calculated before it; when the two differ the header carries the
\* identified size.
C16_HeaderCarriesIdentifiedSize ==
    \A o \in Artifacts :
        LET t == trace[o.by]
            c == Catalog[source[o.by]]
        IN  /\ o.body.bytes[3] = LowByte(c.finalWidth)
            /\ o.body.bytes[4] = LowByte(c.finalHeight)
            /\ \E k, l, m \in DOMAIN t :
                   /\ k < l /\ l < m
                   /\ t[k] = Ok("convertImage")
                   /\ t[l] = Call("readFinalDimensions")
                   /\ t[m] = Ok("readFinalDimensions")

\* An artifact whose thumbnail is not as high as was asked for.
C16_Witness ==
    \E o \in Artifacts :
        /\ thumbSize[o.by].height.n # Catalog[source[o.by]].finalHeight
        /\ o.body.bytes[4] # LowByte(thumbSize[o.by].height.n)

Keys(map) == { p[1] : p \in map }

\* C18: the metadata uploaded with an artifact hold every key of the source
\* object's original metadata with its original value, and the key
\* dominantColor; dominantColor holds the computed color unless the original
\* metadata have that key, whose original value then stays; with no custom
\* metadata the map is exactly {dominantColor: computed color}.
C18_MetadataAreMerged ==
    \A o \in Artifacts :
        LET c == Catalog[source[o.by]]
            original == IF c.hasMetadata THEN c.metadata ELSE {}
        IN  /\ original \subseteq o.metadata
            /\ Keys(o.metadata) = Keys(original) \cup {"dominantColor"}
            /\ Cardinality(o.metadata) = Cardinality(Keys(o.metadata))
            /\ "dominantColor" \notin Keys(original) =>
                   <<"dominantColor", c.color>> \in o.metadata
            /\ original = {} => o.metadata = {<<"dominantColor", c.color>>}

\* An artifact of an object whose own metadata have a dominantColor other
\* than the computed one, and an artifact of an object without metadata.
C18_Witness ==
    /\ \E o \in Artifacts :
           \E p \in Catalog[source[o.by]].metadata :
               /\ Catalog[source[o.by]].hasMetadata
               /\ p[1] = "dominantColor"
               /\ p[2] # Catalog[source[o.by]].color
               /\ p \in o.metadata
    /\ \E o \in Artifacts : ~Catalog[source[o.by]].hasMetadata

----------------------------------------------------------------------------
(* The payload range *)

\* C19: whenever extractThumbData finds both markers, the index of the end
\* marker is at least the index of the start marker plus 2, so the payload
\* range is not inverted and the record has exactly
\* 4 + (end index - start index - 2) >= 4 bytes; the search for the end
\* marker, begun at the start marker's escape byte, does not match within the
\* two bytes of the start marker.
C19_PayloadRangeIsNotInverted ==
    (ext.active /\ ext.applied) =>
        LET d == ext.data
            sosIndex == findMarker(SOS, 0, d)
            eoiIndex == IF sosIndex = null THEN null
                        ELSE findMarker(EOI, sosIndex, d)
        IN  (/\ ~InvalidDimensions(ext.dimensions)
             /\ sosIndex # null
             /\ eoiIndex # null) =>
                /\ eoiIndex >= sosIndex + 2
                /\ eoiIndex = findMarker(EOI, sosIndex + 2, d)
                /\ ext.out.ok
                /\ Len(ext.out.value) = 4 + (eoiIndex - sosIndex - 2)
                /\ Len(ext.out.value) >= 4

\* A record without payload, cut from a buffer that has an end marker before
\* its start marker, too.
C19_Witness ==
    /\ ext.active
    /\ ext.applied
    /\ ext.out.ok
    /\ Len(ext.out.value) = 4
    /\ \E k \in Pairs(ext.data, 217, 0) : k < findMarker(SOS, 0, ext.data)

----------------------------------------------------------------------------
(* Completion *)

\* C20: when every call calls back, every invocation of the handler signals
\* completion, and does so exactly once (the returned promise of index.js
\* settles once, the callback of part_000 is invoked once), on the successful
\* path and on every failing one, a failed download included, after which
\* part_000 goes on to identify.
C20_CompletesExactlyOnce ==
    \A i \in Inv :
        /\ [](completions[i] <= 1)
        /\ (pc[i] # "start") ~> (completions[i] = 1)

\* An invocation of part_000 whose download failed, which went on to identify
\* and has ended, having signalled once.
C20_Witness ==
    \E i \in Inv :
        /\ rev = "part000"
        /\ Happened(i, Err("download"))
        /\ Happened(i, Call("identify"))
        /\ pc[i] = "done"
        /\ completions[i] = 1

----------------------------------------------------------------------------
(* Invalid dimensions of the thumbnail *)

\* C21: when the dimensions identified after the resize are missing or have
\* a zero width or height, extractThumbData rejects with 'Invalid thumb
\* dimensions' before it reads the scratch file, and the invocation writes no
\* thumb-data scratch file and uploads nothing.
C21_InvalidThumbDimensionsAreRejected ==
    \A i \in Inv :
        LET c == Catalog[source[i]] IN
        (/\ Happened(i, Ok("readFinalDimensions"))
         /\ c.finalWidth = 0 \/ c.finalHeight = 0) =>
            /\ extractThumbData(encoded[source[i]], finalDimensions[i]) =
                   Reject("Invalid thumb dimensions")
            /\ trace[i][Len(trace[i])] = Err("extractThumbData")
            /\ ~Happened(i, Call("readFile"))
            /\ ~Happened(i, Call("writeFile"))
            /\ ~Happened(i, Call("uploadFile"))
            /\ thumbData[i] = <<>>
            /\ ScratchNames(i) = {tempLocalFilename[i]}
            /\ \A p \in ScratchFiles(i) : fs[p].kind = "image"
            /\ Written(i) = {}
            /\ pc[i] = "done"
            /\ signal[i] = "error"

\* An invocation whose thumbnail has width 0 and a height, ended with the
\* error.
C21_Witness ==
    \E i \in Inv :
        /\ rev = "index"
        /\ Happened(i, Ok("readFinalDimensions"))
        /\ Catalog[source[i]].finalWidth = 0
        /\ Catalog[source[i]].finalHeight # 0
        /\ signal[i] = "error"

====
